---- MODULE Spec2Model ----
(***************************************************************************)
(* Session memory of the chatbot backend (src/memory.py), the chat request *)
(* handler that drives it (src/main.py), the retrieval-augmented query     *)
(* (src/rag_engine.py, src/claude_client.py), the chunker                  *)
(* (src/document_loader.py) and the vector store (src/vector_store.py).    *)
(*                                                                         *)
(* Spec      : the operations of ConversationMemory and the chat handler,  *)
(*             each call running to completion before the next one starts  *)
(*             (the handler is an `async def` that never awaits).          *)
(* ConcSpec  : add_message called from two worker threads at once, one     *)
(*             step per access to the shared tables (the object has no     *)
(*             lock; the interpreter may switch threads between any two).  *)
(* SweepSpec : cleanup_expired_sessions on the timer thread while one      *)
(*             worker thread is in add_message, stepped likewise.          *)
(* QuerySpec : RAGEngine.query, one step per call it makes to the vector   *)
(*             store and to the generation service.                        *)
(* QueryLiveSpec : QuerySpec with weak fairness on the steps of the query  *)
(*             and on the replies of a service that does reply.            *)
(* ChunkSpec : DocumentLoader._split_text, one step per pass of its loop.  *)
(* StoreSpec : the calls of VectorStore that add and delete documents.     *)
(***************************************************************************)
EXTENDS Integers, Sequences, FiniteSets, TLC

VARIABLES
    sessions,         \* ConversationMemory.sessions: session id -> record
    message_history,  \* ConversationMemory.message_history: session id -> list of messages
    now,              \* the reading of datetime.now()
    discarded,        \* how many messages the trims of the last call removed
    removed,          \* the session ids the last call took out of the session table
    call,             \* the last call: its name and its arguments
    ret,              \* what the last call returned
    threads,          \* ConcSpec: per worker thread, where it is in add_message and its locals
    log,              \* ConcSpec: per session, the messages in the order their appends ran
    started,          \* ConcSpec: how many add_message calls have begun
    sweeper,          \* SweepSpec: where cleanup_expired_sessions is and its locals
    rag,              \* QuerySpec: where RAGEngine.query is and its locals
    chunker,          \* ChunkSpec: where DocumentLoader._split_text is and its locals
    collection        \* StoreSpec: the documents of the ChromaDB collection

workers == <<threads, log, started, sweeper>>
engine == <<rag, chunker, collection>>
memory == <<sessions, message_history, now, discarded, removed>>
vars == <<sessions, message_history, now, discarded, removed, call, ret, threads, log, started,
          sweeper, rag, chunker, collection>>

----------------------------------------------------------------------------
(* Bounds                                                                  *)

MaxTime == 2          \* the clock runs over 0..MaxTime
MaxCalls == 4         \* ConcSpec: add_message calls begun in one run

(* Program settings, scaled down by ten and by thirty: the source has      *)
(* 10 turns, 30 minutes, and limit=10 in the chat handler.                 *)

MAX_CONVERSATION_HISTORY == 1
SESSION_TIMEOUT_MINUTES == 1
ChatHistoryLimit == 1

----------------------------------------------------------------------------
(* Values                                                                  *)

SessionIds == {"s1", "s2"}
NoSession == ""                \* request.session_id is None (or empty)
NoLimit == -1                  \* limit is None
NoUser == "none"               \* user_id is None
UserIds == {NoUser}
Questions == {"hi"}
Answers == {"ans"}
NoMetadata == "None"           \* metadata is None
RagMetadata == "sources, tokens_used"
(* The turns a caller appends: <<role, content, metadata>>                 *)
Turns == {<<"user", q, NoMetadata>> : q \in Questions}
         \cup {<<"assistant", a, RagMetadata>> : a \in Answers}
NoRet == <<"None">>
NoArg == <<"None">>
(* A call: its name, the session id it was given, its other argument.  A   *)
(* sweep has no argument; the model notes there whether the call before it *)
(* was a sweep too, and what that one removed.                             *)
Call(op, sid, arg) == [op |-> op, sid |-> sid, arg |-> arg]

Threads == {"t1", "t2"}
(* What a thread holds of a list it has looked up: nothing, the list that  *)
(* is in the table, or a list that has been replaced in the table since    *)
(* (then only this thread still holds it: there are two threads, and the   *)
(* other one is the one that replaced it)                                  *)
NoRef == [kind |-> "none"]
TableRef == [kind |-> "table"]
OldRef(lst) == [kind |-> "old", val |-> lst]
IdleThread ==
    [pc |-> "idle", sid |-> NoSession, turn |-> NoArg, lst |-> NoRef, new |-> << >>,
     raised |-> FALSE]

(* The timer thread that runs cleanup_expired_sessions: its position, the  *)
(* clock value it read, the entries its scan has still to visit and the    *)
(* size of the session table when the scan began, expired_sessions (what   *)
(* is left of it to delete) and the loop variable of the deleting loop     *)
IdleSweeper ==
    [pc |-> "idle", now |-> 0, size |-> 0, todo |-> {}, expired |-> {},
     session_id |-> NoSession, raised |-> FALSE]

(* The limits get_history is called with: none, 0, fewer than a history   *)
(* can hold, and more than it can hold                                     *)
Limits == {NoLimit, 0, 1, 2 * MAX_CONVERSATION_HISTORY + 1}

Min(a, b) == IF a < b THEN a ELSE b

(* Python's  lst[-k:]  for k >= 0.  -0 is 0, so lst[-0:] is the whole list *)
PyTail(lst, k) ==
    IF k = 0 \/ k >= Len(lst) THEN lst
    ELSE SubSeq(lst, Len(lst) - k + 1, Len(lst))

(* The last min(k, len) elements of a list, the empty list for k = 0       *)
LastK(lst, k) ==
    IF k >= Len(lst) THEN lst
    ELSE SubSeq(lst, Len(lst) - k + 1, Len(lst))

(* f with key k set to v, k added to the domain when it is not there       *)
Put(f, k, v) == [x \in DOMAIN f \cup {k} |-> IF x = k THEN v ELSE f[x]]

(* f without one of the keys in D, the others left in                      *)
DropOne(f, D) ==
    IF D \cap DOMAIN f = {} THEN f
    ELSE LET k == CHOOSE x \in D \cap DOMAIN f : TRUE
         IN  [x \in DOMAIN f \ {k} |-> f[x]]

(* f without the keys in D                                                 *)
Drop(f, D) == [x \in DOMAIN f \ D |-> f[x]]

----------------------------------------------------------------------------
(* RAGEngine: the pure parts of query.  A distance is counted in tenths    *)
(* (3 is 0.3), a similarity likewise, a confidence in hundredths (the      *)
(* two digits round(_, 2) keeps).  A hit is modelled by its distance;      *)
(* search returns hits nearest first.                                      *)

MaxHits == 4          \* hits one search returns (TOP_K_RESULTS is 5)

SIMILARITY_THRESHOLD == 7
One == 10                      \* 1.0 in tenths
Distances == {0, 2, 3, 5, 12, 20}
EmptyString == << >>           \* "": the join of no block
TopResults == 3                \* retrieved_docs[:3]

HitLists ==
    {h \in UNION {[1..n -> Distances] : n \in 0..MaxHits} :
        \A i, j \in DOMAIN h : i < j => h[i] <= h[j]}

(* lst[:k]                                                                 *)
PyHead(lst, k) == SubSeq(lst, 1, Min(k, Len(lst)))

(* sum(1 - doc['distance'] for doc in top_results), in tenths              *)
RECURSIVE SumSimilarity(_)
SumSimilarity(docs) ==
    IF docs = << >> THEN 0
    ELSE (One - Head(docs)) + SumSimilarity(Tail(docs))

(* round(num / den, 2) in hundredths, num in tenths: the nearest           *)
(* hundredth of num / (10 * den).  With den <= 3 the quotient is never     *)
(* half way between two hundredths.                                        *)
Round2(num, den) == (2 * 10 * num + den) \div (2 * den)

(* _calculate_confidence                                                   *)
calculate_confidence(retrieved_docs) ==
    IF retrieved_docs = << >> THEN 0
    ELSE LET top_results == PyHead(retrieved_docs, TopResults)
         IN  Round2(SumSimilarity(top_results), Len(top_results))

(* The test of line 92 on one hit                                          *)
Passes(distance) == distance < One - SIMILARITY_THRESHOLD

(* context_parts: one block "[Source i: ...]" per hit that passes, i the   *)
(* position of the hit in the search result                                *)
RECURSIVE ContextParts(_, _)
ContextParts(retrieved_docs, i) ==
    IF i > Len(retrieved_docs) THEN << >>
    ELSE (IF Passes(retrieved_docs[i])
          THEN << [label |-> i, distance |-> retrieved_docs[i]] >>
          ELSE << >>) \o ContextParts(retrieved_docs, i + 1)

(* _build_context: the blocks joined by the separator; "" for no block     *)
build_context(retrieved_docs) ==
    IF retrieved_docs = << >> THEN EmptyString
    ELSE ContextParts(retrieved_docs, 1)

(* The errors the collaborators raise, by kind                             *)
SearchFailures == {"ChromaError", "EncodeError"}
GenerateFailures == {"APIError"}
ClientTimeout == "APITimeoutError"
NoError == [kind |-> "none", cause |-> "none"]

(* What `raise` in the except clause of query lets out: the error caught   *)
Reraised(kind) == [kind |-> kind, cause |-> "none"]

Services == {"responds", "fails", "silent"}

IdleQuery ==
    [pc |-> "idle", service |-> "none", hits |-> << >>, context |-> EmptyString,
     error |-> NoError, result |-> NoRet]

----------------------------------------------------------------------------
(* DocumentLoader._split_text.  A text is a sequence of characters;        *)
(* positions are counted from 0 as in the source.                          *)

MaxTextLen == 5       \* characters of a text
MaxChunks == 4        \* chunks collected before the model stops following a loop

CHUNK_SIZE == 4
CHUNK_OVERLAP == 2
ChunkSizes == {3, CHUNK_SIZE}
Chars == {"a", " ", ".", "!", "?", "\n"}
Whitespace == {" ", "\n"}
Texts == UNION {[1..n -> Chars] : n \in 0..MaxTextLen}

(* The list the for loop of line 187 walks, in its order                   *)
Puncts == << <<".", " ">>, <<"!", " ">>, <<"?", " ">>, <<"\n", "\n">> >>

(* text[a:b] for 0 <= a                                                    *)
Slice(text, a, b) == SubSeq(text, a + 1, Min(b, Len(text)))

(* The positions p in [a, b) where punct occurs and ends by b              *)
Occurrences(text, punct, a, b) ==
    {p \in a..(b - Len(punct)) : Slice(text, p, p + Len(punct)) = punct}

Max(S) == CHOOSE x \in S : \A y \in S : y <= x

(* text.rfind(punct, a, b)                                                 *)
rfind(text, punct, a, b) ==
    IF Occurrences(text, punct, a, b) = {} THEN -1
    ELSE Max(Occurrences(text, punct, a, b))

(* The for loop of lines 187-191 from the k-th marker on: the first marker *)
(* of the list that occurs in the window decides the cut                   *)
RECURSIVE BreakAt(_, _, _, _)
BreakAt(text, start, end, k) ==
    IF k > Len(Puncts) THEN end
    ELSE LET last_punct == rfind(text, Puncts[k], start, end)
         IN  IF last_punct # -1 THEN last_punct + Len(Puncts[k])
             ELSE BreakAt(text, start, end, k + 1)

(* `end` as line 193 finds it                                              *)
CutEnd(text, start, size) ==
    LET end == start + size
    IN  IF end < Len(text) THEN BreakAt(text, start, end, 1) ELSE end

(* str.strip()                                                             *)
RECURSIVE lstrip(_)
lstrip(str) ==
    IF str # << >> /\ Head(str) \in Whitespace THEN lstrip(Tail(str)) ELSE str

RECURSIVE rstrip(_)
rstrip(str) ==
    IF str # << >> /\ str[Len(str)] \in Whitespace
    THEN rstrip(SubSeq(str, 1, Len(str) - 1)) ELSE str

strip(str) == rstrip(lstrip(str))

IdleChunker ==
    [pc |-> "idle", chunk_size |-> CHUNK_SIZE, chunk_overlap |-> CHUNK_OVERLAP,
     text |-> << >>, start |-> 0, end |-> 0, chunks |-> << >>]

----------------------------------------------------------------------------
(* ConversationMemory.  Of a session record the model keeps last_activity, *)
(* is_active and user_id, of a message role, content and metadata: the     *)
(* created_at and timestamp fields are written once and never decide       *)
(* anything.                                                               *)

Init ==
    /\ sessions = << >>
    /\ message_history = << >>
    /\ now = 0
    /\ discarded = 0
    /\ removed = {}
    /\ call = Call("init", NoSession, NoArg)
    /\ ret = NoRet
    /\ threads = [t \in Threads |-> IdleThread]
    /\ log = [sid \in SessionIds |-> << >>]
    /\ started = 0
    /\ sweeper = IdleSweeper
    /\ rag = IdleQuery
    /\ chunker = IdleChunker
    /\ collection = {}

(* The record create_session stores                                        *)
NewSession(user_id, t) ==
    [user_id |-> user_id, last_activity |-> t, is_active |-> TRUE]

(* The minimal record add_message stores for an unknown id                 *)
LazySession(t) ==
    [last_activity |-> t, is_active |-> TRUE]

(* metadata or {}                                                          *)
Message(role, content, metadata) ==
    [role |-> role, content |-> content,
     metadata |-> IF metadata = NoMetadata THEN "{}" ELSE metadata]

(* message_history.get(session_id, [])                                     *)
HistoryOf(mh, sid) == IF sid \in DOMAIN mh THEN mh[sid] ELSE << >>

(* Trim, with the test one message late                                    *)
TrimLate(lst) ==
    IF Len(lst) > MAX_CONVERSATION_HISTORY * 2 + 1
    THEN PyTail(lst, MAX_CONVERSATION_HISTORY * 2)
    ELSE lst

(* Trim, keeping the head of the list instead of its tail                  *)
TrimKeepsOldest(lst) ==
    IF Len(lst) > MAX_CONVERSATION_HISTORY * 2
    THEN SubSeq(lst, 1, MAX_CONVERSATION_HISTORY * 2)
    ELSE lst

(* The trim that ends add_message                                          *)
Trim(lst) ==
    IF Len(lst) > MAX_CONVERSATION_HISTORY * 2
    THEN PyTail(lst, MAX_CONVERSATION_HISTORY * 2)
    ELSE lst

(* SessionsAfterAdd, last_activity set only when the record is created     *)
SessionsAfterAddNoStamp(ss, sid, t) ==
    IF sid \notin DOMAIN ss THEN Put(ss, sid, LazySession(t)) ELSE ss

(* SessionsAfterAdd, with every append marking the session active again    *)
SessionsAfterAddReactivates(ss, sid, t) ==
    LET created == IF sid \notin DOMAIN ss THEN Put(ss, sid, LazySession(t)) ELSE ss
    IN  [created EXCEPT ![sid].last_activity = t, ![sid].is_active = TRUE]

(* add_message as a function of the two tables: the tables after the call  *)
SessionsAfterAdd(ss, sid, t) ==
    LET created == IF sid \notin DOMAIN ss THEN Put(ss, sid, LazySession(t)) ELSE ss
    IN  [created EXCEPT ![sid].last_activity = t]

HistoryAfterAdd(mh, sid, msg) ==
    Put(mh, sid, Trim(Append(HistoryOf(mh, sid), msg)))

(* get_history                                                             *)
get_history(mh, sid, limit) ==
    LET history == HistoryOf(mh, sid)
    IN  IF limit # NoLimit /\ limit # 0 THEN PyTail(history, limit) ELSE history

(* get_formatted_history                                                   *)
Formatted(lst) == [i \in 1..Len(lst) |-> [role |-> lst[i].role, content |-> lst[i].content]]

get_formatted_history(mh, sid, limit) == Formatted(get_history(mh, sid, limit))

(* get_all_active_sessions                                                 *)
get_all_active_sessions(ss) == {sid \in DOMAIN ss : ss[sid].is_active}

(* Expired, with a session counted as expired when its age is the timeout  *)
ExpiredAtTimeout(ss, t) ==
    {sid \in DOMAIN ss : t - ss[sid].last_activity >= SESSION_TIMEOUT_MINUTES}

(* The ids cleanup_expired_sessions collects                               *)
Expired(ss, t) == {sid \in DOMAIN ss : t - ss[sid].last_activity > SESSION_TIMEOUT_MINUTES}

CountRole(lst, role) == Cardinality({i \in 1..Len(lst) : lst[i].role = role})

----------------------------------------------------------------------------
(* Operations                                                              *)

(* The ids uuid4 can return: any id that is not a key of the two tables    *)
FreshIds == SessionIds \ (DOMAIN sessions \cup DOMAIN message_history)

CreateSession(user_id) ==
    \E sid \in FreshIds :
        /\ sessions' = Put(sessions, sid, NewSession(user_id, now))
        /\ discarded' = 0
        /\ removed' = DOMAIN sessions \ DOMAIN sessions'
        /\ UNCHANGED <<workers, engine>>
        /\ call' = Call("create_session", NoSession, user_id)
        /\ ret' = sid
        /\ UNCHANGED <<message_history, now>>

AddMessage(sid, role, content, metadata) ==
    LET msg == Message(role, content, metadata) IN
    /\ sessions' = SessionsAfterAdd(sessions, sid, now)
    /\ message_history' = HistoryAfterAdd(message_history, sid, msg)
    /\ discarded' = Len(HistoryOf(message_history, sid)) + 1 - Len(message_history'[sid])
    /\ removed' = DOMAIN sessions \ DOMAIN sessions'
    /\ UNCHANGED <<workers, engine>>
    /\ call' = Call("add_message", sid, <<role, content, metadata>>)
    /\ ret' = NoRet
    /\ UNCHANGED now

GetHistory(sid, limit) ==
    /\ call' = Call("get_history", sid, limit)
    /\ ret' = get_history(message_history, sid, limit)
    /\ discarded' = 0
    /\ removed' = {}
    /\ UNCHANGED <<workers, engine>>
    /\ UNCHANGED <<sessions, message_history, now>>

GetFormattedHistory(sid, limit) ==
    /\ call' = Call("get_formatted_history", sid, limit)
    /\ ret' = get_formatted_history(message_history, sid, limit)
    /\ discarded' = 0
    /\ removed' = {}
    /\ UNCHANGED <<workers, engine>>
    /\ UNCHANGED <<sessions, message_history, now>>

HistoryAfterClear(mh, sid) ==
    IF sid \in DOMAIN mh THEN [mh EXCEPT ![sid] = << >>] ELSE mh

ClearHistory(sid) ==
    /\ message_history' = HistoryAfterClear(message_history, sid)
    /\ discarded' = 0
    /\ removed' = {}
    /\ UNCHANGED <<workers, engine>>
    /\ call' = Call("clear_history", sid, NoArg)
    /\ ret' = NoRet
    /\ UNCHANGED <<sessions, now>>

(* SessionsAfterEnd, deleting the record instead of flagging it            *)
SessionsAfterEndDeletes(ss, sid) == Drop(ss, {sid})

SessionsAfterEnd(ss, sid) ==
    IF sid \in DOMAIN ss THEN [ss EXCEPT ![sid].is_active = FALSE] ELSE ss

EndSession(sid) ==
    /\ sessions' = SessionsAfterEnd(sessions, sid)
    /\ call' = Call("end_session", sid, NoArg)
    /\ ret' = NoRet
    /\ discarded' = 0
    /\ removed' = DOMAIN sessions \ DOMAIN sessions'
    /\ UNCHANGED <<workers, engine>>
    /\ UNCHANGED <<message_history, now>>

CleanupExpiredSessions ==
    LET expired_sessions == Expired(sessions, now) IN
    /\ sessions' = Drop(sessions, expired_sessions)
    /\ message_history' = Drop(message_history, expired_sessions)
    /\ discarded' = 0
    /\ removed' = DOMAIN sessions \ DOMAIN sessions'
    /\ UNCHANGED <<workers, engine>>
    /\ call' = Call("cleanup_expired_sessions", NoSession,
                     IF call.op = "cleanup_expired_sessions" THEN <<"after", removed>> ELSE NoArg)
    /\ ret' = NoRet
    /\ UNCHANGED now

get_session_stats(ss, mh, sid) ==
    LET history == HistoryOf(mh, sid) IN
    IF sid \notin DOMAIN ss THEN << >>
    ELSE [session_id |-> sid,
          total_messages |-> Len(history),
          user_messages |-> CountRole(history, "user"),
          assistant_messages |-> CountRole(history, "assistant"),
          last_activity |-> ss[sid].last_activity,
          is_active |-> ss[sid].is_active]

GetSessionStats(sid) ==
    /\ call' = Call("get_session_stats", sid, NoArg)
    /\ ret' = get_session_stats(sessions, message_history, sid)
    /\ discarded' = 0
    /\ removed' = {}
    /\ UNCHANGED <<workers, engine>>
    /\ UNCHANGED <<sessions, message_history, now>>

GetAllActiveSessions ==
    /\ call' = Call("get_all_active_sessions", NoSession, NoArg)
    /\ ret' = get_all_active_sessions(sessions)
    /\ discarded' = 0
    /\ removed' = {}
    /\ UNCHANGED <<workers, engine>>
    /\ UNCHANGED <<sessions, message_history, now>>

(* Time passes between two calls                                           *)
Tick ==
    /\ now < MaxTime
    /\ now' = now + 1
    /\ call' = Call("tick", NoSession, NoArg)
    /\ ret' = NoRet
    /\ discarded' = 0
    /\ removed' = {}
    /\ UNCHANGED <<workers, engine>>
    /\ UNCHANGED <<sessions, message_history>>

----------------------------------------------------------------------------
(* The chat request handler (POST /api/chat)                               *)

(* ReusesSession, without the lookup in the session table                  *)
ReusesAnyGivenId(ss, req_sid) == req_sid # NoSession

(* Does the handler reuse the session the request names?                   *)
ReusesSession(ss, req_sid) == req_sid # NoSession /\ req_sid \in DOMAIN ss

(* conversation_history[-10:] in generate_response, scaled like the limit  *)
(* of the handler                                                          *)
ClientHistoryLimit == 1

(* The messages generate_response sends to the service: the last of the    *)
(* history it was handed, then the current user message                    *)
ServiceMessages(conversation_history, user_message) ==
    (IF conversation_history # << >>
     THEN PyTail(conversation_history, ClientHistoryLimit)
     ELSE << >>) \o << [role |-> "user", content |-> user_message] >>

QueryHistoryAfterAppend(mh, sid, user_msg) ==
    get_formatted_history(HistoryAfterAdd(mh, sid, user_msg), sid, ChatHistoryLimit)

(* The history the handler reads at line 84, before it stores the user     *)
(* turn at line 86, and hands to rag_engine.query at line 94               *)
QueryHistory(mh, sid, user_msg) == get_formatted_history(mh, sid, ChatHistoryLimit)

HistoryAfterFailureRolledBack(mh, mh1) == mh

(* The histories when rag_engine.query has raised: mh before the request,  *)
(* mh1 with the user turn stored; the except clause of line 122 stores and *)
(* removes nothing                                                         *)
HistoryAfterFailure(mh, mh1) == mh1

(* ok: rag_engine.query returned, so both turns are stored and the         *)
(* response carries the session id.  Not ok: it raised after the user turn *)
(* was stored, and the handler answers with status 500.                    *)
Chat(req_sid, user_id, message, ok, answer) ==
    \E sid \in SessionIds :
        /\ IF ReusesSession(sessions, req_sid)
           THEN sid = req_sid
           ELSE sid \in FreshIds \ {req_sid}
        /\ LET ss0 == IF ReusesSession(sessions, req_sid) THEN sessions
                      ELSE Put(sessions, sid, NewSession(user_id, now))
               user_msg == Message("user", message, NoMetadata)
               history == QueryHistory(message_history, sid, user_msg)
               ss1 == SessionsAfterAdd(ss0, sid, now)
               mh1 == HistoryAfterAdd(message_history, sid, user_msg)
               bot_msg == Message("assistant", answer, RagMetadata)
           IN  /\ sessions' = IF ok THEN SessionsAfterAdd(ss1, sid, now) ELSE ss1
               /\ message_history' = IF ok THEN HistoryAfterAdd(mh1, sid, bot_msg)
                                     ELSE HistoryAfterFailure(message_history, mh1)
               /\ discarded' = Len(HistoryOf(message_history, sid)) + (IF ok THEN 2 ELSE 1)
                                 - Len(HistoryOf(message_history', sid))
               /\ removed' = DOMAIN sessions \ DOMAIN sessions'
               /\ ret' = IF ok
                         THEN [status |-> 200, message |-> answer, session_id |-> sid,
                               sent |-> history,
                               messages |-> ServiceMessages(history, message)]
                         ELSE [status |-> 500, sent |-> history]
        /\ call' = Call("chat", req_sid, <<user_id, message>>)
        /\ UNCHANGED <<now, workers, engine>>

Next ==
    \/ \E u \in UserIds : CreateSession(u)
    \/ \E sid \in SessionIds, turn \in Turns : AddMessage(sid, turn[1], turn[2], turn[3])
    \/ \E sid \in SessionIds, limit \in Limits : GetHistory(sid, limit)
    \/ \E sid \in SessionIds : GetFormattedHistory(sid, ChatHistoryLimit)
    \/ \E sid \in SessionIds : ClearHistory(sid)
    \/ \E sid \in SessionIds : EndSession(sid)
    \/ CleanupExpiredSessions
    \/ \E sid \in SessionIds : GetSessionStats(sid)
    \/ GetAllActiveSessions
    \/ \E req \in SessionIds \cup {NoSession}, u \in UserIds, m \in Questions,
          ok \in BOOLEAN, a \in Answers : Chat(req, u, m, ok, a)
    \/ Tick

Spec == Init /\ [][Next]_vars

----------------------------------------------------------------------------
(* add_message, step by step, in two threads                               *)

(* The list a thread's reference stands for                                *)
Deref(t) ==
    IF threads[t].lst.kind = "table"
    THEN message_history[threads[t].sid]
    ELSE threads[t].lst.val

(* self.message_history[session_id]: a defaultdict, it stores an empty     *)
(* list under a key it does not have                                       *)
Indexed(mh, sid) == IF sid \in DOMAIN mh THEN mh ELSE Put(mh, sid, << >>)

(* The threads after t has replaced or appended to a list: t moves on, and *)
(* a thread that held the replaced list of that session keeps it           *)
Moved(t, upd) == [threads EXCEPT ![t] = upd]

Detached(t, upd, sid) ==
    [u \in Threads |->
        IF u = t THEN upd
        ELSE IF threads[u].lst.kind = "table" /\ threads[u].sid = sid
             THEN [threads[u] EXCEPT !.lst = OldRef(message_history[sid])]
             ELSE threads[u]]

Begin(t, sid, turn) ==
    /\ threads[t].pc = "idle"
    /\ started < MaxCalls
    /\ started' = started + 1
    /\ threads' = Moved(t, [IdleThread EXCEPT !.pc = "L66", !.sid = sid, !.turn = turn])
    /\ UNCHANGED <<sessions, message_history, now, discarded, removed, call, ret, engine, sweeper, log>>

(* line 66: if session_id not in self.sessions                             *)
TestSession(t) ==
    /\ threads[t].pc = "L66"
    /\ threads' = Moved(t, [threads[t] EXCEPT
                              !.pc = IF threads[t].sid \notin DOMAIN sessions
                                     THEN "L68" ELSE "L82"])
    /\ UNCHANGED <<sessions, message_history, now, discarded, removed, call, ret, engine, sweeper, log, started>>

(* line 68: self.sessions[session_id] = {...}                              *)
StoreSession(t) ==
    /\ threads[t].pc = "L68"
    /\ sessions' = Put(sessions, threads[t].sid, LazySession(now))
    /\ threads' = Moved(t, [threads[t] EXCEPT !.pc = "L82"])
    /\ UNCHANGED <<message_history, now, discarded, removed, call, ret, engine, sweeper, log, started>>

(* line 82: self.message_history[session_id]                               *)
IndexForAppend(t) ==
    /\ threads[t].pc = "L82"
    /\ message_history' = Indexed(message_history, threads[t].sid)
    /\ threads' = Moved(t, [threads[t] EXCEPT !.pc = "L82 append", !.lst = TableRef])
    /\ UNCHANGED <<sessions, now, discarded, removed, call, ret, engine, sweeper, log, started>>

(* line 82: .append(message)                                               *)
AppendToList(t) ==
    LET sid == threads[t].sid
        msg == Message(threads[t].turn[1], threads[t].turn[2], threads[t].turn[3])
    IN  /\ threads[t].pc = "L82 append"
        /\ IF threads[t].lst.kind = "table"
           THEN message_history' = [message_history EXCEPT ![sid] = Append(@, msg)]
           ELSE UNCHANGED message_history
        /\ threads' = Moved(t, [threads[t] EXCEPT !.pc = "L85", !.lst = NoRef])
        /\ log' = [log EXCEPT ![sid] = Append(@, msg)]
        /\ UNCHANGED <<sessions, now, discarded, removed, call, ret, engine, sweeper, started>>

(* line 85: self.sessions[session_id]['last_activity'] = datetime.now(),   *)
(* a KeyError when the record is gone                                      *)
StampActivity(t) ==
    LET sid == threads[t].sid IN
    /\ threads[t].pc = "L85"
    /\ IF sid \in DOMAIN sessions
       THEN /\ sessions' = [sessions EXCEPT ![sid].last_activity = now]
            /\ threads' = Moved(t, [threads[t] EXCEPT !.pc = "L89"])
       ELSE /\ UNCHANGED sessions
            /\ threads' = Moved(t, [IdleThread EXCEPT !.raised = TRUE])
    /\ UNCHANGED <<message_history, now, discarded, removed, call, ret, engine, sweeper, log, started>>

(* line 89: self.message_history[session_id]                               *)
IndexForLen(t) ==
    /\ threads[t].pc = "L89"
    /\ message_history' = Indexed(message_history, threads[t].sid)
    /\ threads' = Moved(t, [threads[t] EXCEPT !.pc = "L89 len", !.lst = TableRef])
    /\ UNCHANGED <<sessions, now, discarded, removed, call, ret, engine, sweeper, log, started>>

(* line 89: if len(...) > max_history * 2                                  *)
TestLen(t) ==
    /\ threads[t].pc = "L89 len"
    /\ threads' = Moved(t, IF Len(Deref(t)) > MAX_CONVERSATION_HISTORY * 2
                           THEN [threads[t] EXCEPT !.pc = "L90", !.lst = NoRef]
                           ELSE IdleThread)
    /\ UNCHANGED <<sessions, message_history, now, discarded, removed, call, ret, engine, sweeper, log, started>>

(* line 90: self.message_history[session_id]                               *)
IndexForSlice(t) ==
    /\ threads[t].pc = "L90"
    /\ message_history' = Indexed(message_history, threads[t].sid)
    /\ threads' = Moved(t, [threads[t] EXCEPT !.pc = "L90 slice", !.lst = TableRef])
    /\ UNCHANGED <<sessions, now, discarded, removed, call, ret, engine, sweeper, log, started>>

(* line 90: [-max_history * 2:], a new list                                *)
SliceList(t) ==
    /\ threads[t].pc = "L90 slice"
    /\ threads' = Moved(t, [threads[t] EXCEPT
                              !.pc = "L90 store", !.lst = NoRef,
                              !.new = PyTail(Deref(t), MAX_CONVERSATION_HISTORY * 2)])
    /\ UNCHANGED <<sessions, message_history, now, discarded, removed, call, ret, engine, sweeper, log, started>>

(* line 90: self.message_history[session_id] = the new list                *)
StoreHistory(t) ==
    LET sid == threads[t].sid IN
    /\ threads[t].pc = "L90 store"
    /\ message_history' = Put(message_history, sid, threads[t].new)
    /\ threads' = Detached(t, IdleThread, sid)
    /\ UNCHANGED <<sessions, now, discarded, removed, call, ret, engine, sweeper, log, started>>

(* One step of worker thread t inside add_message                          *)
WorkerStep(t) ==
    \/ \E sid \in SessionIds, turn \in Turns : Begin(t, sid, turn)
    \/ TestSession(t)
    \/ StoreSession(t)
    \/ IndexForAppend(t)
    \/ AppendToList(t)
    \/ StampActivity(t)
    \/ IndexForLen(t)
    \/ TestLen(t)
    \/ IndexForSlice(t)
    \/ SliceList(t)
    \/ StoreHistory(t)

ConcNext == \E t \in Threads : WorkerStep(t)

ConcSpec == Init /\ [][ConcNext]_vars

----------------------------------------------------------------------------
(* cleanup_expired_sessions on the timer thread while a worker thread is   *)
(* in add_message, one step per access to the shared tables.               *)

SweepThreads == {"t1"}

(* lines 154-158: the clock is read and the iteration over                 *)
(* self.sessions.items() begins                                            *)
SweepBegin ==
    /\ sweeper.pc = "idle"
    /\ sweeper' = [IdleSweeper EXCEPT !.pc = "L158", !.now = now,
                                      !.size = Cardinality(DOMAIN sessions),
                                      !.todo = DOMAIN sessions]
    /\ UNCHANGED <<memory, call, ret, threads, log, started, engine>>

(* lines 158-160: the iterator is asked for the next entry.  It raises     *)
(* RuntimeError when the table has changed size since the scan began;      *)
(* otherwise it yields an entry, which is tested, or it is exhausted       *)
ScanNext ==
    /\ sweeper.pc = "L158"
    /\ IF Cardinality(DOMAIN sessions) # sweeper.size
       THEN sweeper' = [IdleSweeper EXCEPT !.raised = TRUE]
       ELSE IF sweeper.todo = {}
            THEN sweeper' = [sweeper EXCEPT !.pc = "L162"]
            ELSE \E sid \in sweeper.todo :
                    sweeper' = [sweeper EXCEPT
                        !.todo = @ \ {sid},
                        !.expired = IF sweeper.now - sessions[sid].last_activity
                                            > SESSION_TIMEOUT_MINUTES
                                     THEN @ \cup {sid} ELSE @]
    /\ UNCHANGED <<memory, call, ret, threads, log, started, engine>>

(* line 162: the next of expired_sessions, or the end of the call          *)
NextExpired ==
    /\ sweeper.pc = "L162"
    /\ sweeper' = IF sweeper.expired = {} THEN IdleSweeper
                  ELSE [sweeper EXCEPT !.pc = "L163"]
    /\ UNCHANGED <<memory, call, ret, threads, log, started, engine>>

(* line 163: del self.sessions[session_id]                                 *)
DelSession(sid) ==
    /\ sweeper.pc = "L163"
    /\ sid \in sweeper.expired
    /\ sessions' = Drop(sessions, {sid})
    /\ sweeper' = [sweeper EXCEPT !.pc = "L164", !.expired = @ \ {sid},
                                  !.session_id = sid]
    /\ UNCHANGED <<message_history, now, discarded, removed, call, ret, threads, log,
                   started, engine>>

(* line 164: if session_id in self.message_history                         *)
TestHistory ==
    /\ sweeper.pc = "L164"
    /\ sweeper' = IF sweeper.session_id \in DOMAIN message_history
                  THEN [sweeper EXCEPT !.pc = "L165"]
                  ELSE [sweeper EXCEPT !.pc = "L162", !.session_id = NoSession]
    /\ UNCHANGED <<memory, call, ret, threads, log, started, engine>>

(* line 165: del self.message_history[session_id]; a thread that holds the *)
(* deleted list keeps it                                                   *)
DelHistory ==
    /\ sweeper.pc = "L165"
    /\ LET sid == sweeper.session_id IN
          /\ message_history' = Drop(message_history, {sid})
          /\ threads' = [u \in Threads |->
                IF threads[u].lst.kind = "table" /\ threads[u].sid = sid
                THEN [threads[u] EXCEPT !.lst = OldRef(message_history[sid])]
                ELSE threads[u]]
          /\ sweeper' = [sweeper EXCEPT !.pc = "L162", !.session_id = NoSession]
    /\ UNCHANGED <<sessions, now, discarded, removed, call, ret, log, started, engine>>

SweepNext ==
    \/ \E t \in SweepThreads : WorkerStep(t)
    \/ Tick
    \/ SweepBegin
    \/ ScanNext
    \/ NextExpired
    \/ \E sid \in SessionIds : DelSession(sid)
    \/ TestHistory
    \/ DelHistory

SweepSpec == Init /\ [][SweepNext]_vars

----------------------------------------------------------------------------
(* RAGEngine.query, one step per call that leaves the process.  The query  *)
(* reads no session memory and writes none.                                *)

(* query is entered; `service` is how the generation service will behave   *)
QueryBegin(service) ==
    /\ rag.pc \in {"idle", "done", "failed"}
    /\ rag' = [IdleQuery EXCEPT !.pc = "search", !.service = service]
    /\ UNCHANGED <<memory, call, ret, workers, chunker, collection>>

(* vector_store.search returns; _build_context runs on its results         *)
SearchReturns(hits) ==
    /\ rag.pc = "search"
    /\ rag' = [rag EXCEPT !.pc = "generate", !.hits = hits,
                          !.context = build_context(hits)]
    /\ UNCHANGED <<memory, call, ret, workers, chunker, collection>>

(* vector_store.search raises; the except clause logs and re-raises        *)
SearchFails(kind) ==
    /\ rag.pc = "search"
    /\ rag' = [rag EXCEPT !.pc = "failed", !.error = Reraised(kind)]
    /\ UNCHANGED <<memory, call, ret, workers, chunker, collection>>

(* claude_client.generate_response returns; the result is assembled        *)
GenerateReturns(answer) ==
    /\ rag.pc = "generate"
    /\ rag.service = "responds"
    /\ rag' = [rag EXCEPT !.pc = "done",
                          !.result = [answer |-> answer,
                                      retrieved_chunks |-> Len(rag.hits),
                                      confidence |-> calculate_confidence(rag.hits)]]
    /\ UNCHANGED <<memory, call, ret, workers, chunker, collection>>

(* generate_response raises (it logs and re-raises, and so does query)     *)
GenerateFails(kind) ==
    /\ rag.pc = "generate"
    /\ rag.service = "fails"
    /\ rag' = [rag EXCEPT !.pc = "failed", !.error = Reraised(kind)]
    /\ UNCHANGED <<memory, call, ret, workers, chunker, collection>>

(* The service stays silent.  messages.create is called without a timeout  *)
(* argument; the client library may give up by its own default, and then   *)
(* its error is re-raised like any other.                                  *)
ClientGivesUp ==
    /\ rag.pc = "generate"
    /\ rag.service = "silent"
    /\ rag' = [rag EXCEPT !.pc = "failed", !.error = Reraised(ClientTimeout)]
    /\ UNCHANGED <<memory, call, ret, workers, chunker, collection>>

SearchStep ==
    /\ rag.pc = "search"
    /\ \/ \E hits \in HitLists : SearchReturns(hits)
       \/ \E kind \in SearchFailures : SearchFails(kind)

ServiceReplies ==
    \/ \E answer \in Answers : GenerateReturns(answer)
    \/ \E kind \in GenerateFailures : GenerateFails(kind)

QueryNext ==
    \/ \E service \in Services : QueryBegin(service)
    \/ SearchStep
    \/ ServiceReplies
    \/ ClientGivesUp

QuerySpec == Init /\ [][QueryNext]_vars

(* The query's own steps are taken, and a service that replies does reply; *)
(* nothing makes the client library give up.                               *)
QueryLiveSpec == QuerySpec /\ WF_vars(SearchStep) /\ WF_vars(ServiceReplies)

----------------------------------------------------------------------------
(* DocumentLoader._split_text, one step per iteration of its while loop.   *)

(* A loader configured with (size, overlap) is handed a text: lines        *)
(* 175-179                                                                 *)
SplitText(text, size, overlap) ==
    /\ chunker.pc = "idle"
    /\ chunker' =
        IF Len(text) <= size
        THEN [chunker EXCEPT !.pc = "done", !.chunk_size = size, !.chunk_overlap = overlap,
                             !.text = text, !.chunks = <<text>>]
        ELSE [chunker EXCEPT !.pc = "loop", !.chunk_size = size, !.chunk_overlap = overlap,
                             !.text = text, !.start = 0, !.chunks = << >>]
    /\ UNCHANGED <<memory, call, ret, workers, rag, collection>>

(* One pass of the while loop: lines 181-200                               *)
SplitIterate ==
    /\ chunker.pc = "loop"
    /\ chunker.start < Len(chunker.text)
    /\ Len(chunker.chunks) < MaxChunks
    /\ LET end == CutEnd(chunker.text, chunker.start, chunker.chunk_size)
           chunk == strip(Slice(chunker.text, chunker.start, end))
           next == end - chunker.chunk_overlap
       IN  chunker' = [chunker EXCEPT
                !.end = end,
                !.chunks = IF chunk # << >> THEN Append(@, chunk) ELSE @,
                !.start = IF next < 0 THEN 0 ELSE next]
    /\ UNCHANGED <<memory, call, ret, workers, rag, collection>>

(* The loop condition fails: line 202                                      *)
SplitReturn ==
    /\ chunker.pc = "loop"
    /\ chunker.start >= Len(chunker.text)
    /\ chunker' = [chunker EXCEPT !.pc = "done"]
    /\ UNCHANGED <<memory, call, ret, workers, rag, collection>>

ChunkNext ==
    \/ /\ chunker.pc = "idle"
       /\ \E text \in Texts, size \in ChunkSizes :
            \E overlap \in 0..(size - 1) : SplitText(text, size, overlap)
    \/ SplitIterate
    \/ SplitReturn

ChunkSpec == Init /\ [][ChunkNext]_vars

----------------------------------------------------------------------------
(* VectorStore.  The collection is the set of stored documents, each with  *)
(* its id and the source file of its metadata.  A call of the embedding    *)
(* model or of the ChromaDB collection either works or raises.             *)

MaxBatch == 2         \* documents in one add_documents call

DocIds == {"d1", "d2", "d3"}
Sources == {"a.md", "b.md"}
Batches == UNION {[1..n -> Sources] : n \in 1..MaxBatch}
NoFailure == 0                 \* every call to the embedding model returns
Returned(value) == [kind |-> "value", value |-> value]
Raised(error) == [kind |-> "error", value |-> error]

(* ids = [str(uuid.uuid4()) for _ in documents]: ids not in the collection *)
FreshDocIds(n) ==
    {ids \in [1..n -> DocIds \ {d.id : d \in collection}] :
        \A a, b \in 1..n : a # b => ids[a] # ids[b]}

StoredEachBeforeFailure(documents, ids, failing) ==
    {[id |-> ids[k], source |-> documents[k]] : k \in 1..(failing - 1)}

(* What of a batch has reached the collection when the embedding of its    *)
(* failing-th document raises: line 69 embeds the whole batch before line  *)
(* 72 adds anything                                                        *)
StoredBeforeFailure(documents, ids, failing) == {}

(* add_documents.  failing: the position in the batch at which             *)
(* generate_embedding raises, or NoFailure; up: collection.add works       *)
AddDocuments(documents, ids, failing, up) ==
    /\ call' = Call("add_documents", NoSession, <<documents, failing, up>>)
    /\ IF failing # NoFailure
       THEN /\ collection' = collection \cup StoredBeforeFailure(documents, ids, failing)
            /\ ret' = Raised("EncodeError")
       ELSE IF ~up
            THEN /\ collection' = collection
                 /\ ret' = Raised("ChromaError")
            ELSE /\ collection' = collection \cup
                        {[id |-> ids[k], source |-> documents[k]] : k \in DOMAIN documents}
                 /\ ret' = Returned(ids)
    /\ UNCHANGED <<memory, workers, rag, chunker>>

(* delete_document.  up: collection.delete works                           *)
DeleteDocument(document_id, up) ==
    /\ call' = Call("delete_document", NoSession, <<document_id, up>>)
    /\ IF up
       THEN /\ collection' = {d \in collection : d.id # document_id}
            /\ ret' = Returned(TRUE)
       ELSE /\ collection' = collection
            /\ ret' = Returned(FALSE)
    /\ UNCHANGED <<memory, workers, rag, chunker>>

(* delete_by_source.  up: collection.get and collection.delete work        *)
DeleteBySource(source_filename, up) ==
    /\ call' = Call("delete_by_source", NoSession, <<source_filename, up>>)
    /\ LET results == {d \in collection : d.source = source_filename}
       IN  IF up
           THEN /\ collection' = collection \ results
                /\ ret' = Returned(Cardinality(results))
           ELSE /\ collection' = collection
                /\ ret' = Returned(0)
    /\ UNCHANGED <<memory, workers, rag, chunker>>

StoreNext ==
    \/ \E documents \in Batches, up \in BOOLEAN :
         \E ids \in FreshDocIds(Len(documents)), failing \in 0..Len(documents) :
            AddDocuments(documents, ids, failing, up)
    \/ \E document_id \in DocIds, up \in BOOLEAN : DeleteDocument(document_id, up)
    \/ \E source_filename \in Sources, up \in BOOLEAN : DeleteBySource(source_filename, up)

StoreSpec == Init /\ [][StoreNext]_vars

----------------------------------------------------------------------------
(* Properties of the session memory                                        *)

MaxStored == 2 * MAX_CONVERSATION_HISTORY

(* C1: between two calls the history of every session holds at most 2N     *)
(* messages, N being MAX_CONVERSATION_HISTORY, whatever calls came before. *)
HistoryBound ==
    \A sid \in DOMAIN message_history : Len(message_history[sid]) <= MaxStored

(* An append has just run into the bound: it discarded a message and left  *)
(* the history full.                                                       *)
HistoryBoundWitness ==
    /\ call.op = "add_message"
    /\ discarded > 0
    /\ Len(message_history[call.sid]) = MaxStored

(* C2: trimming is FIFO.  Every add_message leaves the history of its      *)
(* session equal to the last min(len + 1, 2N) messages of the previous     *)
(* history followed by the new message, in that order, and touches no      *)
(* other history; starting from an empty history, count appends therefore  *)
(* leave exactly the last min(count, 2N) appended messages.                *)
TrimIsFifo ==
    [][call'.op = "add_message" =>
             LET sid == call'.sid
                 turn == call'.arg
                 all == Append(HistoryOf(message_history, sid),
                               Message(turn[1], turn[2], turn[3]))
                 kept == Min(Len(all), MaxStored)
             IN  /\ sid \in DOMAIN message_history'
                 /\ Len(message_history'[sid]) = kept
                 /\ \A i \in 1..kept :
                       message_history'[sid][i] = all[Len(all) - kept + i]
                 /\ \A other \in SessionIds \ {sid} :
                       HistoryOf(message_history', other) = HistoryOf(message_history, other)
      ]_vars

(* An append on a full history of two different messages dropped the       *)
(* oldest one: the two stored messages differ, so the order shows.         *)
TrimIsFifoWitness ==
    /\ call.op = "add_message"
    /\ discarded = 1
    /\ Len(message_history[call.sid]) = MaxStored
    /\ message_history[call.sid][1] # message_history[call.sid][MaxStored]

(* C4: the sweep removes exactly the sessions whose age, now minus         *)
(* last_activity, is strictly greater than the timeout, and their          *)
(* histories with them; every other session keeps its record and its       *)
(* history as they were.                                                   *)
SweepRemovesExactlyExpired ==
    [][call'.op = "cleanup_expired_sessions" =>
         \A sid \in SessionIds :
            IF sid \in DOMAIN sessions
               /\ now - sessions[sid].last_activity > SESSION_TIMEOUT_MINUTES
            THEN /\ sid \notin DOMAIN sessions'
                 /\ sid \notin DOMAIN message_history'
            ELSE /\ (sid \in DOMAIN sessions') = (sid \in DOMAIN sessions)
                 /\ sid \in DOMAIN sessions => sessions'[sid] = sessions[sid]
                 /\ (sid \in DOMAIN message_history') = (sid \in DOMAIN message_history)
                 /\ HistoryOf(message_history', sid) = HistoryOf(message_history, sid)
      ]_vars

(* A sweep removed one session and kept another one whose age is exactly   *)
(* the timeout, with the messages it holds.                                *)
SweepRemovesExactlyExpiredWitness ==
    /\ call.op = "cleanup_expired_sessions"
    /\ removed # {}
    /\ \E sid \in DOMAIN sessions :
          /\ now - sessions[sid].last_activity = SESSION_TIMEOUT_MINUTES
          /\ HistoryOf(message_history, sid) # << >>

(* C5: a sweep that directly follows a sweep, no other call and no clock   *)
(* change in between, removes no session and leaves the session table and  *)
(* every history as the first one left them.                               *)
SweepIdempotent ==
    [][(call.op = "cleanup_expired_sessions" /\ call'.op = "cleanup_expired_sessions") =>
          /\ sessions' = sessions
          /\ message_history' = message_history
          /\ removed' = {}
      ]_vars

(* The second of two sweeps in a row has run, the first one had removed a  *)
(* session and left another one in the table.                              *)
SweepIdempotentWitness ==
    /\ call.op = "cleanup_expired_sessions"
    /\ call.arg # NoArg
    /\ call.arg[2] # {}
    /\ removed = {}
    /\ DOMAIN sessions # {}

(* C6: only the sweep takes a session id out of the session table: a step  *)
(* of any other call (create_session, add_message and its trim,            *)
(* get_history, get_formatted_history, clear_history, end_session,         *)
(* get_session_stats, the chat handler) keeps every id that was in it.     *)
OnlySweepRemovesSessions ==
    [][(\E sid \in DOMAIN sessions : sid \notin DOMAIN sessions') =>
          call'.op = "cleanup_expired_sessions"
      ]_vars

(* clear_history has emptied the history of a session that was ended       *)
(* before, and the session record is still in the table.                   *)
OnlySweepRemovesSessionsWitness ==
    /\ call.op = "clear_history"
    /\ call.sid \in DOMAIN sessions
    /\ ~sessions[call.sid].is_active
    /\ call.sid \in DOMAIN message_history
    /\ message_history[call.sid] = << >>

(* C7: add_message returns normally for every session id.  For an id that  *)
(* is not in the session table it stores a record with is_active true; in  *)
(* every case the message is the last one of the history afterwards and    *)
(* last_activity of the session is the time of the call.                   *)
AppendCreatesAndStamps ==
    [][call'.op = "add_message" =>
         LET sid == call'.sid
             turn == call'.arg
         IN  /\ ret' = NoRet
             /\ sid \in DOMAIN sessions'
             /\ sessions'[sid].last_activity = now'
             /\ sid \notin DOMAIN sessions => sessions'[sid].is_active
             /\ sid \in DOMAIN message_history'
             /\ Len(message_history'[sid]) > 0
             /\ message_history'[sid][Len(message_history'[sid])]
                   = Message(turn[1], turn[2], turn[3])
      ]_vars

(* An append, later than time 0, on an id that only add_message ever put   *)
(* in the table (the record has no user_id).                               *)
AppendCreatesAndStampsWitness ==
    /\ call.op = "add_message"
    /\ now > 0
    /\ "user_id" \notin DOMAIN sessions[call.sid]
    /\ sessions[call.sid].last_activity = now
    /\ sessions[call.sid].is_active

(* C8: get_history with a limit L >= 0 returns the last min(L, len)        *)
(* messages of the session in order, without a limit all of them, and the  *)
(* call changes neither the session table nor any history.                 *)
GetHistoryReturnsLastL ==
    [][call'.op = "get_history" =>
         LET history == HistoryOf(message_history, call'.sid)
             limit == call'.arg
         IN  /\ ret' = IF limit = NoLimit THEN history ELSE LastK(history, limit)
             /\ sessions' = sessions
             /\ message_history' = message_history
      ]_vars

(* C9: end_session clears is_active and leaves the record in the table and *)
(* the histories alone; get_all_active_sessions returns exactly the ids in *)
(* the table whose is_active is true; and no call makes a session active   *)
(* again for as long as its record stays in the table.                     *)
EndedStaysInactive ==
    [][/\ call'.op = "end_session" =>
            /\ DOMAIN sessions' = DOMAIN sessions
            /\ message_history' = message_history
            /\ call'.sid \in DOMAIN sessions =>
                  /\ ~sessions'[call'.sid].is_active
                  /\ sessions'[call'.sid].last_activity = sessions[call'.sid].last_activity
       /\ call'.op = "get_all_active_sessions" =>
            ret' = {sid \in DOMAIN sessions' : sessions'[sid].is_active = TRUE}
       /\ \A sid \in DOMAIN sessions \cap DOMAIN sessions' :
            ~sessions[sid].is_active => ~sessions'[sid].is_active
      ]_vars

(* A message was appended to an ended session, and the session is still    *)
(* not active.                                                             *)
EndedStaysInactiveWitness ==
    /\ call.op = "add_message"
    /\ ~sessions[call.sid].is_active
    /\ get_all_active_sessions(sessions) # {}

(* C10: the chat handler reuses the session of the request when its id is  *)
(* in the session table, and creates none.  When the id is absent or not   *)
(* in the table it creates one session under an id that is new to both     *)
(* tables and is not the id of the request.  A successful request returns  *)
(* the id it used, and that session's history ends with the user turn and  *)
(* the assistant turn; no other history changes.                           *)
ChatGetsOrCreatesSession ==
    [][call'.op = "chat" =>
         LET req == call'.sid
             known == req # NoSession /\ req \in DOMAIN sessions
             turns == <<Message("user", call'.arg[2], NoMetadata),
                        Message("assistant", ret'.message, RagMetadata)>>
             Served(sid) ==
                /\ \A other \in SessionIds \ {sid} :
                      HistoryOf(message_history', other) = HistoryOf(message_history, other)
                /\ ret'.status = 200 =>
                      /\ ret'.session_id = sid
                      /\ LastK(message_history'[sid], 2) = turns
         IN  IF known
             THEN /\ DOMAIN sessions' = DOMAIN sessions
                  /\ Served(req)
             ELSE \E new \in SessionIds \ {req} :
                  /\ new \notin DOMAIN sessions
                  /\ new \notin DOMAIN message_history
                  /\ DOMAIN sessions' = DOMAIN sessions \cup {new}
                  /\ Served(new)
      ]_vars

(* A successful request that named a session id which is not in the table  *)
(* and was answered under another id.                                      *)
ChatGetsOrCreatesSessionWitness ==
    /\ call.op = "chat"
    /\ call.sid # NoSession
    /\ ret.status = 200
    /\ ret.session_id # call.sid
    /\ call.sid \notin DOMAIN sessions
    /\ Len(message_history[ret.session_id]) = 2

(* No add_message call is under way                                        *)
AllFinished == \A t \in Threads : threads[t].pc = "idle"

(* C3: no update is lost when add_message calls run concurrently.  Once    *)
(* every call has finished, the history of each session is the last        *)
(* min(count, 2N) of its appended messages, in the order the appends ran:  *)
(* each one that is not among the trimmed oldest is there once, and none   *)
(* was discarded in favour of an older one.                                *)
NoLostUpdate ==
    AllFinished =>
       \A sid \in SessionIds : HistoryOf(message_history, sid) = LastK(log[sid], MaxStored)

(* C11: the confidence of a finished query lies in [0, 1] (0..100          *)
(* hundredths) when its hit list is not empty, is 0 when it is empty, and  *)
(* for a non-empty list is the rounded average of 1 - distance over the    *)
(* first min(3, len) hits.                                                 *)
ConfidenceInUnitInterval ==
    rag.pc = "done" =>
        LET hits == rag.hits
            n == Min(TopResults, Len(hits))
            score == rag.result.confidence
        IN  /\ hits = << >> => score = 0
            /\ hits # << >> =>
                /\ score >= 0 /\ score <= 100
                /\ score = Round2(SumSimilarity(SubSeq(hits, 1, n)), n)

(* C12: the context holds a block for exactly the hits whose similarity    *)
(* 1 - distance is at least the threshold, one of similarity equal to the  *)
(* threshold included; with no such hit it is the empty string.            *)
ContextKeepsAtThreshold ==
    rag.pc \in {"generate", "done"} =>
        LET kept == {i \in DOMAIN rag.hits : One - rag.hits[i] >= SIMILARITY_THRESHOLD}
        IN  /\ {rag.context[b].label : b \in DOMAIN rag.context} = kept
            /\ kept = {} => rag.context = EmptyString

(* C13: a query that fails in the search or in the generation fails with   *)
(* one RAGQueryError that wraps the cause, returns no result, and leaves   *)
(* the session memory as it was.                                           *)
QueryFailsWrapped ==
    [][rag'.pc = "failed" /\ rag.pc # "failed" =>
        /\ rag'.error.kind = "RAGQueryError"
        /\ rag'.error.cause \in SearchFailures \cup GenerateFailures \cup {ClientTimeout}
        /\ rag'.result = NoRet
        /\ UNCHANGED <<sessions, message_history>>]_vars

(* C14: a query whose generation service never answers ends all the same,  *)
(* failing with an error of the kind GenerationTimeout.                    *)
SilentServiceTimesOut ==
    (rag.pc = "generate" /\ rag.service = "silent")
        ~> (rag.pc = "failed" /\ rag.error.kind = "GenerationTimeout")

(* C15: every pass of the splitting loop leaves the window start strictly  *)
(* beyond where the pass found it, so that the loop ends on every text and *)
(* every configuration with 0 <= overlap < size.                           *)
WindowStartAdvances ==
    [][chunker.pc = "loop" /\ chunker'.pc = "loop" =>
        chunker'.start > chunker.start]_vars

(* C16: the empty text is split into no chunk at all, and no chunk of any  *)
(* text is empty.                                                          *)
NoEmptyChunk ==
    /\ chunker.pc = "done" /\ chunker.text = << >> => chunker.chunks = << >>
    /\ \A i \in DOMAIN chunker.chunks : chunker.chunks[i] # << >>

(* C20: a pass whose window stops short of the end of the text cuts right  *)
(* after the marker occurrence nearest to the window's end, whichever of   *)
(* the markers it is, and at start + size when the window holds no marker. *)
CutsAtClosestMarker ==
    [][chunker.pc = "loop" /\ chunker'.pc = "loop" =>
        LET text == chunker.text
            start == chunker.start
            window_end == start + chunker.chunk_size
            ends == UNION {{p + Len(Puncts[k]) :
                                p \in Occurrences(text, Puncts[k], start, window_end)} :
                           k \in DOMAIN Puncts}
        IN  window_end < Len(text) =>
                chunker'.end = IF ends # {} THEN Max(ends) ELSE window_end]_vars

(* C17: when the call to the backing store fails, delete_document and     *)
(* delete_by_source end in an error, not in the value (False, 0) that      *)
(* stands for nothing to delete.                                           *)
DeleteSurfacesFailure ==
    [][call'.op \in {"delete_document", "delete_by_source"} /\ call'.arg[2] = FALSE =>
        ret'.kind = "error"]_vars

(* C19: when the embedding of any one document of an add_documents batch   *)
(* fails, the call ends in an error and the collection is as it was        *)
(* before the call, wherever in the batch the failing document is.         *)
FailedBatchStoresNothing ==
    [][call'.op = "add_documents" /\ call'.arg[2] # NoFailure =>
        /\ collection' = collection
        /\ ret'.kind = "error"]_vars

(* A batch of two whose second document fails has been refused while the   *)
(* collection held a document                                              *)
FailedBatchStoresNothingWitness ==
    /\ call.op = "add_documents"
    /\ Len(call.arg[1]) = 2
    /\ call.arg[2] = 2
    /\ ret.kind = "error"
    /\ collection # {}

(* C18: a sweep that runs interleaved with an add_message on a session it *)
(* finds expired corrupts nothing.  Once both have finished, every session *)
(* id that has a message history has a session record as well, and the     *)
(* add_message has ended without an error.                                 *)
SweepLeavesStateSound ==
    (AllFinished /\ sweeper.pc = "idle") =>
        /\ DOMAIN message_history \subseteq DOMAIN sessions
        /\ \A t \in Threads : ~threads[t].raised

(* C21: a successful chat request appends exactly two messages to its     *)
(* session, the user turn and then the assistant turn.  The history it     *)
(* hands to the query is the last ChatHistoryLimit messages the session    *)
(* held before the user turn was stored, so that the service receives the  *)
(* current question once, as the last message.                             *)
ChatAppendsTwoTurns ==
    [][call'.op = "chat" /\ ret'.status = 200 =>
        LET sid == ret'.session_id
            question == call'.arg[2]
            before == HistoryOf(message_history, sid)
            user_turn == Message("user", question, NoMetadata)
            bot_turn == Message("assistant", ret'.message, RagMetadata)
            handed == Formatted(LastK(before, ChatHistoryLimit))
            asked == [role |-> "user", content |-> question]
        IN  /\ message_history'[sid] = LastK(before \o <<user_turn, bot_turn>>, MaxStored)
            /\ ret'.sent = handed
            /\ ret'.messages = LastK(handed, ClientHistoryLimit) \o <<asked>>
      ]_vars

(* A successful request on a session that already held an answered         *)
(* question: the service got the earlier answer and then the question      *)
ChatAppendsTwoTurnsWitness ==
    /\ call.op = "chat"
    /\ ret.status = 200
    /\ Len(ret.sent) = 1
    /\ ret.sent[1].role = "assistant"
    /\ Len(ret.messages) = 2

(* C22: a chat request whose query fails ends with status 500 and leaves   *)
(* the user turn stored as the last message of its session, with no        *)
(* assistant turn after it.  The request that follows on that session      *)
(* hands over a history that ends with the unanswered user turn, so the    *)
(* service receives two user turns in a row.                               *)
FailedChatKeepsUserTurn ==
    [][call'.op = "chat" =>
        LET req == call'.sid
            known == req # NoSession /\ req \in DOMAIN sessions
            question == call'.arg[2]
            user_turn == Message("user", question, NoMetadata)
        IN  /\ ret'.status = 500 =>
                \E sid \in SessionIds :
                    /\ IF known THEN sid = req ELSE sid \in DOMAIN sessions' \ DOMAIN sessions
                    /\ HistoryOf(message_history', sid) =
                            LastK(HistoryOf(message_history, sid) \o <<user_turn>>, MaxStored)
            /\ (call.op = "chat" /\ ret.status = 500 /\ call.sid = req /\ known) =>
                /\ ret'.sent # << >>
                /\ ret'.sent[Len(ret'.sent)] = [role |-> "user", content |-> call.arg[2]]
                /\ ret'.status = 200 =>
                      \E i \in 1..(Len(ret'.messages) - 1) :
                          /\ ret'.messages[i].role = "user"
                          /\ ret'.messages[i + 1].role = "user"
      ]_vars

(* A request failed on a session, and the next request on that session     *)
(* succeeded having sent the unanswered user turn before its own           *)
FailedChatKeepsUserTurnWitness ==
    /\ call.op = "chat"
    /\ ret.status = 200
    /\ Len(ret.messages) = 2
    /\ ret.messages[1].role = "user"
    /\ ret.messages[2].role = "user"
    /\ ret.session_id = call.sid

====
